---- MODULE Spec2Model ----
(***************************************************************************)
(* BarrilesYA storefront: the pricing helpers, the automatic quantity      *)
(* discounts, the combo auto-bundler, the cart handlers of App, the order  *)
(* message, the saved cart and the price feed.                             *)
(*                                                                         *)
(* Money is in whole pesos.  A cart line's timestamp is kept in hundredths *)
(* of a millisecond, so that the bundler's "virtual timestamps"            *)
(* (timestamp + i * 0.01) and Math.floor are exact integer arithmetic.     *)
(* An optional number (pricePerExtraBarrel?: number) is <<>> when it is    *)
(* undefined and <<n>> when it is the number n.                            *)
(***************************************************************************)
EXTENDS Integers, Sequences, FiniteSets, Bags, TLC

VARIABLES
    cart,               \* App state: CartItem[]
    automaticDiscounts, \* App state: productId -> [percentage, amount]
    feedbackMessage,    \* App state: the text of the feedback banner
    pendingAdds,        \* the setTimeout(..., 100) callbacks of handleAddToCart not yet run
    now,                \* Date.now(), in milliseconds
    effectsPending,     \* the cart changed and the two cart effects have not run yet
    rewrites,           \* history: bundler rewrites applied since a handler last set the cart
    lastOrderInfo,      \* useState: the lines and discounts of the last order placed
    localStorage,       \* window.localStorage: for each key <<>> (no item) or <<text>>
    fetch,              \* where fetchPrices stands, and how it ended once it has settled
    isLoadingPrices,    \* useState
    isInitialLoad,      \* useState
    productCategories,  \* useState: the products of the categories, with their live prices
    priceLastUpdated,   \* useState
    call,               \* a helper function's call: its name and arguments
    result              \* that call's return value: <<>> before it returns, <<v>> after

priceVars == <<fetch, isLoadingPrices, isInitialLoad, productCategories, priceLastUpdated>>

vars ==
    <<cart, automaticDiscounts, feedbackMessage, pendingAdds, now, effectsPending, rewrites,
      lastOrderInfo, localStorage, priceVars, call, result>>

appVars ==
    <<cart, automaticDiscounts, feedbackMessage, pendingAdds, now, effectsPending, rewrites,
      lastOrderInfo, localStorage, priceVars>>

(***************************************************************************)
(* Bounds of the model.                                                    *)
(***************************************************************************)
MaxUnits == 3       \* units (summed quantities) in the cart and in the pending adds
MaxPending == 2     \* add clicks whose deferred application is still pending
MaxClock == 2       \* the last millisecond the clock reaches
MaxTiers == 3       \* length of a generated discount tier list
MaxCount == 5       \* largest effective unit count / quantity fed to a helper
MaxAmount == 25000  \* largest amount fed to smartRoundToMarketingPrice
MaxLines == 2       \* lines of a cart fed to the discount recomputation

(***************************************************************************)
(* Generic helpers.                                                        *)
(***************************************************************************)
TsUnit == 100   \* timestamp units in a millisecond: a virtual timestamp step is 0.01 ms

Range(s) == {s[i] : i \in DOMAIN s}

RECURSIVE SumSeq(_)
SumSeq(s) == IF s = <<>> THEN 0 ELSE Head(s) + SumSeq(Tail(s))

\* Array.prototype.find, given the elements that pass its test, in order:
\* <<>> for undefined, <<element>> for the first match
FirstOrUndefined(hits) == IF hits = <<>> THEN <<>> ELSE <<Head(hits)>>

\* x is truthy, for an optional number
Truthy(x) == x # <<>> /\ x[1] # 0

\* Number(x || 0), for an optional number
NumberOrZero(x) == IF Truthy(x) THEN x[1] ELSE 0

(***************************************************************************)
(* JSON texts. A text is [type |-> "unparsable"] or the value it parses    *)
(* to, written as [type |-> "array", elements |-> ...], [type |-> "object",*)
(* ...], [type |-> "number"] or [type |-> "null"]. A property that is      *)
(* undefined is left out of the text of an object.                         *)
(***************************************************************************)
\* JSON.stringify of a kit: pricePerExtraBarrel is written when it is a number
stringifiedKit(kit) ==
    IF kit.pricePerExtraBarrel = <<>>
    THEN [id |-> kit.id, hasExtraBarrelSelector |-> kit.hasExtraBarrelSelector,
          price |-> kit.price]
    ELSE [id |-> kit.id, hasExtraBarrelSelector |-> kit.hasExtraBarrelSelector,
          price |-> kit.price, pricePerExtraBarrel |-> kit.pricePerExtraBarrel[1]]

\* the kit object JSON.parse builds from that text
parsedKit(object) ==
    [id |-> object.id, hasExtraBarrelSelector |-> object.hasExtraBarrelSelector,
     price |-> object.price,
     pricePerExtraBarrel |->
         IF "pricePerExtraBarrel" \in DOMAIN object
         THEN <<object.pricePerExtraBarrel>> ELSE <<>>]

\* a text that holds the first line of the cart only
stringifiedFirstLine(c) ==
    [type |-> "array",
     elements |-> [i \in DOMAIN c \cap {1} |->
                      [product |-> c[i].product, kit |-> stringifiedKit(c[i].kit),
                       quantity |-> c[i].quantity, timestamp |-> c[i].timestamp]]]

\* JSON.stringify(cart)
stringifiedCart(c) ==
    [type |-> "array",
     elements |-> [i \in DOMAIN c |->
                      [product |-> c[i].product, kit |-> stringifiedKit(c[i].kit),
                       quantity |-> c[i].quantity, timestamp |-> c[i].timestamp]]]

\* the cart state initializer, given localStorage.getItem('barrilesYaCart'):
\* JSON.parse throws on an unparsable text and the catch returns []
initialCart(savedCart) ==
    IF savedCart = <<>> THEN <<>>
    ELSE IF savedCart[1].type = "unparsable" THEN <<>>
    ELSE IF savedCart[1].type = "array"
         THEN [i \in DOMAIN savedCart[1].elements |->
                  LET item == savedCart[1].elements[i]
                  IN  [product |-> item.product, kit |-> parsedKit(item.kit),
                       quantity |-> IF item.quantity # 0 THEN item.quantity ELSE 0,
                       timestamp |-> item.timestamp]]
         ELSE <<>>

(***************************************************************************)
(* The catalog (constants.ts).                                             *)
(***************************************************************************)
Kit(id, hasExtraBarrelSelector, price, pricePerExtraBarrel) ==
    [id |-> id, hasExtraBarrelSelector |-> hasExtraBarrelSelector,
     price |-> price, pricePerExtraBarrel |-> pricePerExtraBarrel]

Tier(quantity, percentage) == [quantity |-> quantity, percentage |-> percentage]

BEBIDAS_INDIVIDUALES == <<
    [id |-> "cerveza", type |-> "individual", comboComponents |-> <<>>,
     discountTiers |-> <<Tier(2, 5), Tier(3, 10), Tier(4, 15)>>,
     kits |-> <<Kit("kit-completo-cerveza", FALSE, 12000, <<>>),
                Kit("kit-extra-cerveza", TRUE, 12000, <<7000>>),
                Kit("solo-barril-cerveza", FALSE, 8500, <<>>)>>],
    [id |-> "fernet", type |-> "individual", comboComponents |-> <<>>,
     discountTiers |-> <<Tier(2, 5), Tier(3, 10)>>,
     kits |-> <<Kit("kit-completo-fernet", FALSE, 13000, <<>>),
                Kit("kit-extra-fernet", TRUE, 13000, <<7500>>),
                Kit("solo-barril-fernet", FALSE, 9000, <<>>)>>],
    [id |-> "gin-tonic", type |-> "individual", comboComponents |-> <<>>,
     discountTiers |-> <<Tier(2, 5), Tier(3, 10), Tier(4, 15)>>,
     kits |-> <<Kit("kit-completo-gin", FALSE, 15000, <<>>),
                Kit("kit-extra-gin", TRUE, 15000, <<9000>>),
                Kit("solo-barril-gin", FALSE, 11000, <<>>)>>] >>

COMBOS == <<
    [id |-> "ruta-19", type |-> "combo", comboComponents |-> <<"fernet", "cerveza">>,
     discountTiers |-> <<Tier(1, 10)>>,
     kits |-> <<Kit("kit-completo-ruta-19", FALSE, 25000, <<>>),
                Kit("solo-barriles-ruta-19", FALSE, 17500, <<>>)>>],
    [id |-> "viento-sur", type |-> "combo", comboComponents |-> <<"gin-tonic", "cerveza">>,
     discountTiers |-> <<Tier(1, 10)>>,
     kits |-> <<Kit("kit-completo-viento-sur", FALSE, 27000, <<>>),
                Kit("solo-barriles-viento-sur", FALSE, 19500, <<>>)>>],
    [id |-> "sunset-club", type |-> "combo", comboComponents |-> <<"fernet", "gin-tonic">>,
     discountTiers |-> <<Tier(1, 10)>>,
     kits |-> <<Kit("kit-completo-sunset-club", FALSE, 28000, <<>>),
                Kit("solo-barriles-sunset-club", FALSE, 20000, <<>>)>>],
    [id |-> "casa-tres", type |-> "combo",
     comboComponents |-> <<"cerveza", "gin-tonic", "fernet">>,
     discountTiers |-> <<Tier(1, 10)>>,
     kits |-> <<Kit("kit-completo-casa-tres", FALSE, 40000, <<>>),
                Kit("solo-barriles-casa-tres", FALSE, 28500, <<>>)>>] >>

\* productCategories.flatMap(c => c.products), with the default catalog prices
allLiveProducts == BEBIDAS_INDIVIDUALES \o COMBOS

ProductIds == {p.id : p \in Range(allLiveProducts)}

\* allLiveProducts.find(p => p.id === productId), for an id of the catalog
Product(productId) == CHOOSE p \in Range(allLiveProducts) : p.id = productId

\* kit.id.includes('kit-completo'), over the kit ids of the catalog and of
\* the two combos DoubledCombos adds to it
IsKitCompleto(kit) ==
    kit.id \in {"kit-completo-cerveza", "kit-completo-fernet", "kit-completo-gin",
                "kit-completo-ruta-19", "kit-completo-viento-sur",
                "kit-completo-sunset-club", "kit-completo-casa-tres",
                "kit-completo-doble-cerveza", "kit-completo-doble-fernet-cerveza"}

(***************************************************************************)
(* Pricing helpers.                                                        *)
(***************************************************************************)
\* the price rounded to the nearest thousand (Math.round), not up
smartRoundByRoundingToNearest(price) ==
    IF price <= 0 THEN 0 ELSE ((price + 500) \div 1000) * 1000 - 10

\* Math.ceil(price / 1000) * 1000 - 10, and 0 for price <= 0
smartRoundToMarketingPrice(price) ==
    IF price <= 0 THEN 0
    ELSE LET upperThousand ==
                 (IF (price \div 1000) * 1000 = price
                  THEN price \div 1000 ELSE (price \div 1000) + 1) * 1000
         IN  upperThousand - 10

calculateItemTotal(item) ==
    LET quantity == item.quantity
        price == item.kit.price
    IN  IF item.kit.hasExtraBarrelSelector /\ Truthy(item.kit.pricePerExtraBarrel)
        THEN price + quantity * NumberOrZero(item.kit.pricePerExtraBarrel)
        ELSE price * quantity

getItemBarrelCount(item) ==
    LET quantity == item.quantity
    IN  IF item.kit.hasExtraBarrelSelector THEN 1 + quantity ELSE quantity

\* tiers.slice().sort((a, b) => b.quantity - a.quantity): stable, descending
RECURSIVE InsertByQuantityDesc(_, _)
InsertByQuantityDesc(tier, sorted) ==
    IF sorted = <<>> THEN <<tier>>
    ELSE IF Head(sorted).quantity >= tier.quantity
         THEN <<Head(sorted)>> \o InsertByQuantityDesc(tier, Tail(sorted))
         ELSE <<tier>> \o sorted

RECURSIVE ReverseSeq(_)
ReverseSeq(s) == IF s = <<>> THEN <<>> ELSE ReverseSeq(Tail(s)) \o <<Head(s)>>

\* the tier list turned round, not sorted (what ProductDetail does)
SortTiersDescByReversing(tiers) == ReverseSeq(tiers)

RECURSIVE SortTiersDesc(_)
SortTiersDesc(tiers) ==
    IF tiers = <<>> THEN <<>>
    ELSE InsertByQuantityDesc(tiers[Len(tiers)], SortTiersDesc(SubSeq(tiers, 1, Len(tiers) - 1)))

\* .find(tier => group.totalBarrelQuantity >= tier.quantity) on the sorted list
applicableTier(tiers, totalBarrelQuantity) ==
    LET Qualifies(tier) == totalBarrelQuantity >= tier.quantity
    IN  FirstOrUndefined(SelectSeq(SortTiersDesc(tiers), Qualifies))

(***************************************************************************)
(* ProductDetail: the price preview of the active kit.                     *)
(***************************************************************************)
\* product.discountTiers?.slice().reverse().find(tier => totalBarrels >= tier.quantity)
productDetailTier(tiers, totalBarrels) ==
    LET Qualifies(tier) == totalBarrels >= tier.quantity
    IN  FirstOrUndefined(SelectSeq(ReverseSeq(tiers), Qualifies))

\* what the render of the active kit computes for the selector value
\* quantities[kit.id] ?? 1.  Prices are multiples of 100 and percentages
\* whole, so that the discounted price is a whole number of pesos.
ProductDetail(product, kit, selected) ==
    LET isCombo == product.type = "combo"
        isExtraBarrelKit == kit.hasExtraBarrelSelector /\ Truthy(kit.pricePerExtraBarrel)
        quantity == IF isCombo THEN 1 ELSE selected
        totalBarrels == IF isExtraBarrelKit THEN 1 + quantity ELSE quantity
        dynamicPrice == IF isExtraBarrelKit
                        THEN kit.price + quantity * NumberOrZero(kit.pricePerExtraBarrel)
                        ELSE kit.price * quantity
        tier == productDetailTier(product.discountTiers, totalBarrels)
        discounted == IF tier # <<>>
                      THEN (dynamicPrice * (100 - tier[1].percentage)) \div 100
                      ELSE dynamicPrice
    IN  [totalBarrels |-> totalBarrels,
         applicableTier |-> tier,
         finalPrice |-> IF isCombo /\ tier # <<>>
                        THEN smartRoundToMarketingPrice(discounted)
                        ELSE discounted]

(***************************************************************************)
(* The discount recomputation effect: the map it hands to                  *)
(* setAutomaticDiscounts for a cart.                                       *)
(***************************************************************************)
\* the group that is the product's first line only, nothing pooled
groupedByFirstLine(c, productId) ==
    LET OfProduct(item) == item.product = productId
        items == SelectSeq(c, OfProduct)
    IN  [totalBarrelQuantity |-> getItemBarrelCount(items[1]),
         subtotal |-> calculateItemTotal(items[1])]

\* groupedByProduct[productId], the reduce over the cart
groupedByProduct(c, productId) ==
    LET OfProduct(item) == item.product = productId
        items == SelectSeq(c, OfProduct)
    IN  [totalBarrelQuantity |-> SumSeq([i \in DOMAIN items |-> getItemBarrelCount(items[i])]),
         subtotal |-> SumSeq([i \in DOMAIN items |-> calculateItemTotal(items[i])])]

\* a recomputation that leaves the entries of products it finds no tier for
newDiscountsKeepingOldEntries(c) ==
    LET inCart == {c[i].product : i \in DOMAIN c}
        tierOf(productId) ==
            applicableTier(Product(productId).discountTiers,
                           groupedByProduct(c, productId).totalBarrelQuantity)
        fresh == {p \in inCart : tierOf(p) # <<>>}
    IN  [productId \in fresh \cup DOMAIN automaticDiscounts |->
            IF productId \in fresh
            THEN [percentage |-> tierOf(productId)[1].percentage,
                  amount |-> (groupedByProduct(c, productId).subtotal
                                 * tierOf(productId)[1].percentage) \div 100]
            ELSE automaticDiscounts[productId]]

\* the discount effect's newDiscounts, computed from the cart
newDiscounts(c) ==
    LET inCart == {c[i].product : i \in DOMAIN c}
        tierOf(productId) ==
            applicableTier(Product(productId).discountTiers,
                           groupedByProduct(c, productId).totalBarrelQuantity)
    IN  [productId \in {p \in inCart : tierOf(p) # <<>>} |->
            [percentage |-> tierOf(productId)[1].percentage,
             amount |-> (groupedByProduct(c, productId).subtotal
                            * tierOf(productId)[1].percentage) \div 100]]

\* Cart's total: the subtotal of the lines minus the discount amounts
finalTotal(c, discounts) ==
    LET subtotal == SumSeq([i \in DOMAIN c |-> calculateItemTotal(c[i])])
        totalDiscount ==
            SumSeq([i \in DOMAIN allLiveProducts |->
                       IF allLiveProducts[i].id \in DOMAIN discounts
                       THEN discounts[allLiveProducts[i].id].amount ELSE 0])
    IN  subtotal - totalDiscount

(***************************************************************************)
(* The order message. A text is a record of its parts; the kit and product *)
(* names are stood for by their ids.                                       *)
(***************************************************************************)
RECURSIVE ThousandsGroups(_)
\* the digits of n >= 0 in groups of three, as es-AR separates them with "."
ThousandsGroups(n) ==
    IF n < 1000 THEN <<n>> ELSE Append(ThousandsGroups(n \div 1000), n % 1000)

\* Intl.NumberFormat('es-AR', {style: 'currency', currency: 'ARS'}) on a
\* whole amount: the sign, "$" and the grouped digits
formatCurrency(amount) ==
    [negative |-> amount < 0,
     groups |-> ThousandsGroups(IF amount < 0 THEN -amount ELSE amount)]

\* 'Mi pedido está vacío.': a text with no bullets and no footer
EmptyOrderMessage == [header |-> "Mi pedido esta vacio.", items |-> <<>>, footer |-> <<>>]

\* the amount of one entry instead of the sum of the entries
amountOfOneEntry(discounts) ==
    IF DOMAIN discounts = {} THEN 0
    ELSE discounts[CHOOSE p \in DOMAIN discounts : TRUE].amount

RECURSIVE totalDiscountAmount(_)
\* Object.values(discounts).reduce((sum, d) => sum + d.amount, 0)
totalDiscountAmount(discounts) ==
    IF DOMAIN discounts = {} THEN 0
    ELSE LET p == CHOOSE p \in DOMAIN discounts : TRUE
         IN  discounts[p].amount
                + totalDiscountAmount([q \in DOMAIN discounts \ {p} |-> discounts[q]])

\* the bullet of one line: what follows the names, and the line's total
orderMessageItem(item) ==
    [kit |-> item.kit.id, product |-> item.product,
     details |->
         IF Product(item.product).type = "combo" THEN <<>>
         ELSE IF item.kit.hasExtraBarrelSelector
              THEN LET recambioCount == IF item.quantity # 0 THEN item.quantity ELSE 1
                   IN  IF recambioCount > 0
                       THEN <<"con", recambioCount,
                              IF recambioCount > 1 THEN "barriles" ELSE "barril",
                              "de recambio">>
                       ELSE <<>>
              ELSE <<"x", item.quantity>>,
     total |-> formatCurrency(calculateItemTotal(item))]

generateOrderMessage(c, discounts) ==
    IF Len(c) = 0 THEN EmptyOrderMessage
    ELSE LET subtotal == SumSeq([i \in DOMAIN c |-> calculateItemTotal(c[i])])
         IN  [header |-> "Hola! Quisiera hacer el siguiente pedido:",
              items |-> [i \in DOMAIN c |-> orderMessageItem(c[i])],
              footer |->
                  IF Cardinality(DOMAIN discounts) > 0
                  THEN LET total == subtotal - totalDiscountAmount(discounts)
                       IN  <<[label |-> "Subtotal", minus |-> FALSE,
                              amount |-> formatCurrency(subtotal)],
                             [label |-> "Ahorro por cantidad", minus |-> TRUE,
                              amount |-> formatCurrency(totalDiscountAmount(discounts))],
                             [label |-> "Total Final", minus |-> FALSE,
                              amount |-> formatCurrency(total)]>>
                  ELSE <<[label |-> "Total estimado", minus |-> FALSE,
                          amount |-> formatCurrency(subtotal)]>>]

(***************************************************************************)
(* handleUpdateCartQuantity and the quantities its callers request.        *)
(***************************************************************************)
\* setCart(prevCart => prevCart.map(item => item.timestamp === timestamp ? ...))
updateCartQuantity(c, timestamp, newQuantity) ==
    [i \in DOMAIN c |->
        IF c[i].timestamp = timestamp THEN [c[i] EXCEPT !.quantity = newQuantity] ELSE c[i]]

\* the - button: Math.max(1, Number(item.quantity || 1) - 1)
decrementedQuantity(item) == IF item.quantity - 1 > 1 THEN item.quantity - 1 ELSE 1

\* the + button: Math.min(5, Number(item.quantity || 0) + 1)
incrementedQuantity(item) == IF item.quantity + 1 < 5 THEN item.quantity + 1 ELSE 5

\* handleAddToCart on a kit that has a line: existingItem.quantity + quantity
raisedQuantity(existingItem, quantity) == existingItem.quantity + quantity

(***************************************************************************)
(* The price feed: the effect that runs fetchPrices once, on mount. A      *)
(* price mapping gives a product an entry with kitCompleto and, when the   *)
(* sheet has it, barril. The parsing of the sheet's text is left out: the  *)
(* fetch delivers the mapping newPrices that the rows parse to.            *)
(***************************************************************************)
\* kit.id.includes('solo-barriles')
IsSoloBarriles(kit) ==
    kit.id \in {"solo-barriles-ruta-19", "solo-barriles-viento-sur",
                "solo-barriles-sunset-club", "solo-barriles-casa-tres"}

\* kit.id.includes('solo-barril')
IsSoloBarril(kit) ==
    \/ kit.id \in {"solo-barril-cerveza", "solo-barril-fernet", "solo-barril-gin"}
    \/ IsSoloBarriles(kit)

\* kit.id.includes('kit-extra')
IsKitExtra(kit) == kit.id \in {"kit-extra-cerveza", "kit-extra-fernet", "kit-extra-gin"}

\* one kit of a product that has the entry productPrices
newKit(product, kit, productPrices) ==
    LET hasKitCompleto == "kitCompleto" \in DOMAIN productPrices
        hasBarril == "barril" \in DOMAIN productPrices
    IN  IF product.type = "combo"
        THEN [kit EXCEPT !.price =
                 IF IsSoloBarriles(kit) /\ hasBarril THEN productPrices.barril
                 ELSE IF IsKitCompleto(kit) /\ hasKitCompleto THEN productPrices.kitCompleto
                 ELSE kit.price]
        ELSE IF IsKitExtra(kit) /\ hasKitCompleto /\ hasBarril
             THEN [kit EXCEPT !.price = productPrices.kitCompleto,
                              !.pricePerExtraBarrel = <<productPrices.barril>>]
             ELSE [kit EXCEPT !.price =
                      IF IsKitCompleto(kit) /\ hasKitCompleto THEN productPrices.kitCompleto
                      ELSE IF IsSoloBarril(kit) /\ hasBarril THEN productPrices.barril
                      ELSE kit.price]

\* updatedCategories: the default catalog with the prices of the mapping
updateProductsWithPrices(prices) ==
    [i \in DOMAIN allLiveProducts |->
        LET product == allLiveProducts[i]
        IN  IF product.id \notin DOMAIN prices THEN product
            ELSE [product EXCEPT !.kits =
                     [k \in DOMAIN product.kits |->
                         newKit(product, product.kits[k], prices[product.id])]]]

\* the mappings the sheet's rows parse to: cerveza with or without a barril
\* price, ruta-19 with both prices, or no usable row at all
PriceMaps ==
    LET entries(productId) ==
            IF productId = "cerveza"
            THEN {[kitCompleto |-> 8000], [kitCompleto |-> 8000, barril |-> 4500]}
            ELSE {[kitCompleto |-> 20000, barril |-> 14000]}
    IN  UNION {{m \in [S -> entries("cerveza") \cup entries("ruta-19")] :
                   \A productId \in S : m[productId] \in entries(productId)} :
               S \in SUBSET {"cerveza", "ruta-19"}}

\* JSON.stringify(newPrices)
stringifiedPrices(prices) == [type |-> "object", value |-> prices]

\* the flags cleared at the end of the try block, on success only
resolveLoadingOnSuccessOnly(outcome) ==
    IF outcome = "success"
    THEN isLoadingPrices' = FALSE /\ isInitialLoad' = FALSE
    ELSE UNCHANGED <<isLoadingPrices, isInitialLoad>>

\* the finally block of fetchPrices, on whichever path it is reached
resolveLoading(outcome) ==
    /\ isLoadingPrices' = FALSE
    /\ isInitialLoad' = FALSE

cartVars ==
    <<cart, automaticDiscounts, feedbackMessage, pendingAdds, now, effectsPending, rewrites,
      lastOrderInfo>>

\* fetchPrices up to its await fetch(GOOGLE_SHEET_URL): the cached prices are
\* applied; a cached text that does not parse, or parses to null, throws
\* and the catch leaves the prices and the date as they are
fetchPricesStarts ==
    /\ fetch = "mount"
    /\ LET cachedPricesRaw == localStorage.barrilesYaPrices
           cachedTimestamp == localStorage.barrilesYaPriceTimestamp
       IN  IF cachedPricesRaw # <<>> /\ cachedPricesRaw[1].type = "object"
           THEN /\ productCategories' = updateProductsWithPrices(cachedPricesRaw[1].value)
                /\ priceLastUpdated' =
                       IF cachedTimestamp # <<>> THEN cachedTimestamp[1] ELSE priceLastUpdated
           ELSE UNCHANGED <<productCategories, priceLastUpdated>>
    /\ fetch' = "awaitResponse"
    /\ UNCHANGED <<cartVars, localStorage, isLoadingPrices, isInitialLoad, call, result>>

\* fetch() rejects: a network error
fetchRejects ==
    /\ fetch = "awaitResponse"
    /\ fetch' = "networkError"
    /\ resolveLoading("networkError")
    /\ UNCHANGED <<cartVars, localStorage, productCategories, priceLastUpdated, call, result>>

\* fetch() resolves: a response that is not ok throws, an ok one is read
fetchResolves ==
    /\ fetch = "awaitResponse"
    /\ \E ok \in BOOLEAN :
          IF ok
          THEN /\ fetch' = "awaitText"
               /\ UNCHANGED <<isLoadingPrices, isInitialLoad>>
          ELSE /\ fetch' = "notOk"
               /\ resolveLoading("notOk")
    /\ UNCHANGED <<cartVars, localStorage, productCategories, priceLastUpdated, call, result>>

\* response.text() rejects, or resolves with a sheet that lacks a required
\* column, or with one whose rows parse to newPrices
textSettles ==
    /\ fetch = "awaitText"
    /\ \/ \E outcome \in {"textError", "missingColumns"} :
             /\ fetch' = outcome
             /\ resolveLoading(outcome)
             /\ UNCHANGED <<localStorage, productCategories, priceLastUpdated>>
       \/ \E newPrices \in PriceMaps :
             IF Cardinality(DOMAIN newPrices) > 0
             THEN /\ productCategories' = updateProductsWithPrices(newPrices)
                  /\ localStorage' =
                         [localStorage EXCEPT
                             !.barrilesYaPrices = <<stringifiedPrices(newPrices)>>,
                             !.barrilesYaPriceTimestamp = <<"fetched">>]
                  /\ priceLastUpdated' = "fetched"
                  /\ fetch' = "success"
                  /\ resolveLoading("success")
             ELSE /\ fetch' = "noUsableRows"
                  /\ resolveLoading("noUsableRows")
                  /\ UNCHANGED <<localStorage, productCategories, priceLastUpdated>>
    /\ UNCHANGED <<cartVars, call, result>>

\* what <main> shows: the skeleton cards while isInitialLoad, else the screen
mainShows == IF isInitialLoad THEN "ProductCardSkeleton" ELSE "renderScreen"

\* the price state of an App whose fetch failed with nothing cached: the
\* default catalog prices, loading resolved
DefaultPricesLoaded ==
    /\ fetch = "networkError"
    /\ isLoadingPrices = FALSE
    /\ isInitialLoad = FALSE
    /\ productCategories = allLiveProducts
    /\ priceLastUpdated = ""

NoItem == <<>>

(***************************************************************************)
(* The helper functions on their own: a call is drawn, then it returns.    *)
(***************************************************************************)
TierPool == {Tier(q, p) : q \in 2..4, p \in {5, 10, 15}}

RECURSIVE SeqsUpTo(_, _)
SeqsUpTo(S, n) ==
    IF n = 0 THEN {<<>>}
    ELSE LET shorter == SeqsUpTo(S, n - 1)
         IN  shorter \cup {Append(s, x) : s \in shorter, x \in S}

KitPool ==
    {Kit("kit", hasExtra, price, extra) :
        hasExtra \in BOOLEAN, price \in {0, 12000}, extra \in {<<>>, <<0>>, <<7000>>}}

ItemPool == {[kit |-> k, quantity |-> q] : k \in KitPool, q \in 1..MaxCount}

\* lines as the cart initializer reads them back from a saved cart, whose
\* numbers nothing has checked: a zero or negative quantity or price
SavedItemPool ==
    {[kit |-> k, quantity |-> q] : k \in KitPool, q \in {-1, 0}} \cup
    {[kit |-> Kit("kit", FALSE, price, <<>>), quantity |-> 1] : price \in {-12000, 0}}

\* a product's kits under a price row kitCompleto = 8000, barril = 4500
PricedKits(product) ==
    <<[product.kits[1] EXCEPT !.price = 8000],
      [product.kits[2] EXCEPT !.price = 8000, !.pricePerExtraBarrel = <<4500>>],
      [product.kits[3] EXCEPT !.price = 4500]>>

DiscountLines ==
    UNION {{[product |-> p.id, kit |-> k, quantity |-> q] :
               k \in Range(p.kits) \cup Range(PricedKits(p)), q \in 1..2} :
           p \in {Product("cerveza"), Product("fernet")}}

\* the lines of the carts an order message is generated for
MessageLines ==
    {[product |-> "cerveza", kit |-> k, quantity |-> q] :
        k \in Range(Product("cerveza").kits), q \in 1..2} \cup
    {[product |-> "ruta-19", kit |-> Product("ruta-19").kits[1], quantity |-> 1]}

\* discount maps, with entries of products that need not be in the cart
DiscountEntry(productId) ==
    CASE productId = "cerveza" -> [percentage |-> 5, amount |-> 600]
      [] productId = "fernet" -> [percentage |-> 10, amount |-> 1300]
      [] productId = "ruta-19" -> [percentage |-> 10, amount |-> 2500]

\* the lines as a cart, the i-th line added in millisecond i - first
StampedCart(lines, first) ==
    [i \in DOMAIN lines |->
        [product |-> lines[i].product, kit |-> lines[i].kit,
         quantity |-> lines[i].quantity, timestamp |-> (i - first) * TsUnit]]

AppInit ==
    /\ cart = <<>>
    /\ automaticDiscounts = <<>>
    /\ feedbackMessage = ""
    /\ pendingAdds = <<>>
    /\ now = 0
    /\ effectsPending = TRUE
    /\ rewrites = 0
    /\ lastOrderInfo = [items |-> <<>>, discounts |-> <<>>]
    /\ localStorage = [barrilesYaCart |-> NoItem, barrilesYaPrices |-> NoItem,
                       barrilesYaPriceTimestamp |-> NoItem]
    /\ DefaultPricesLoaded

\* a call of one of the helpers, or of the discount recomputation on a cart
\* of lines of cerveza and fernet
InitHelpers ==
    /\ AppInit
    /\ \/ \E t \in SeqsUpTo(TierPool, MaxTiers), n \in 0..(MaxCount + 1) :
             call = [fn |-> "applicableTier", tiers |-> t, totalBarrelQuantity |-> n]
       \/ \E it \in ItemPool \cup SavedItemPool :
             call = [fn |-> "calculateItemTotal", item |-> it]
       \/ \E it \in ItemPool : call = [fn |-> "getItemBarrelCount", item |-> it]
       \/ \E t \in SeqsUpTo(TierPool, MaxTiers), k \in 1..2, q \in 1..MaxCount :
             call = [fn |-> "ProductDetail",
                     product |-> [id |-> "cerveza", type |-> "individual",
                                  discountTiers |-> t],
                     kit |-> Product("cerveza").kits[k], quantity |-> q]
       \/ \E p \in Range(allLiveProducts), q \in 1..MaxCount :
             \E k \in DOMAIN p.kits :
                call = [fn |-> "ProductDetail",
                        product |-> [id |-> p.id, type |-> p.type,
                                     discountTiers |-> p.discountTiers],
                        kit |-> p.kits[k], quantity |-> q]
       \/ \E p \in (0 - MaxAmount)..MaxAmount :
             call = [fn |-> "smartRoundToMarketingPrice", price |-> p]
       \/ \E lines \in SeqsUpTo(DiscountLines, MaxLines) :
             call = [fn |-> "newDiscounts", cart |-> StampedCart(lines, 0)]
       \/ \E lines \in SeqsUpTo(MessageLines, MaxLines),
             discounted \in SUBSET {"cerveza", "fernet", "ruta-19"} :
             call = [fn |-> "generateOrderMessage", cart |-> StampedCart(lines, 0),
                     discounts |-> [p \in discounted |-> DiscountEntry(p)]]
       \/ \E current \in 1..MaxCount, caller \in {"-", "+", "add"}, quantity \in 1..MaxCount :
             LET c == StampedCart(<<[product |-> "cerveza",
                                     kit |-> Product("cerveza").kits[1],
                                     quantity |-> current]>>, 0)
             IN  /\ caller = "-" => ~(current <= 1)
                 /\ caller = "+" => ~(current >= 5)
                 /\ call = [fn |-> "handleUpdateCartQuantity", cart |-> c,
                            timestamp |-> c[1].timestamp, caller |-> caller,
                            newQuantity |->
                                CASE caller = "-" -> decrementedQuantity(c[1])
                                  [] caller = "+" -> incrementedQuantity(c[1])
                                  [] caller = "add" -> raisedQuantity(c[1], quantity)]
    /\ result = <<>>

applicableTierReturns ==
    /\ call.fn = "applicableTier" /\ result = <<>>
    /\ result' = <<applicableTier(call.tiers, call.totalBarrelQuantity)>>
    /\ UNCHANGED <<appVars, call>>

calculateItemTotalReturns ==
    /\ call.fn = "calculateItemTotal" /\ result = <<>>
    /\ result' = <<calculateItemTotal(call.item)>>
    /\ UNCHANGED <<appVars, call>>

ProductDetailReturns ==
    /\ call.fn = "ProductDetail" /\ result = <<>>
    /\ result' = <<ProductDetail(call.product, call.kit, call.quantity)>>
    /\ UNCHANGED <<appVars, call>>

getItemBarrelCountReturns ==
    /\ call.fn = "getItemBarrelCount" /\ result = <<>>
    /\ result' = <<getItemBarrelCount(call.item)>>
    /\ UNCHANGED <<appVars, call>>

smartRoundToMarketingPriceReturns ==
    /\ call.fn = "smartRoundToMarketingPrice" /\ result = <<>>
    /\ result' = <<smartRoundToMarketingPrice(call.price)>>
    /\ UNCHANGED <<appVars, call>>

newDiscountsReturns ==
    /\ call.fn = "newDiscounts" /\ result = <<>>
    /\ result' = <<newDiscounts(call.cart)>>
    /\ UNCHANGED <<appVars, call>>

handleUpdateCartQuantityReturns ==
    /\ call.fn = "handleUpdateCartQuantity" /\ result = <<>>
    /\ result' = <<updateCartQuantity(call.cart, call.timestamp, call.newQuantity)>>
    /\ UNCHANGED <<appVars, call>>

generateOrderMessageReturns ==
    /\ call.fn = "generateOrderMessage" /\ result = <<>>
    /\ result' = <<generateOrderMessage(call.cart, call.discounts)>>
    /\ UNCHANGED <<appVars, call>>

NextHelpers ==
    \/ generateOrderMessageReturns
    \/ handleUpdateCartQuantityReturns
    \/ newDiscountsReturns
    \/ applicableTierReturns
    \/ calculateItemTotalReturns
    \/ getItemBarrelCountReturns
    \/ ProductDetailReturns
    \/ smartRoundToMarketingPriceReturns

SpecHelpers == InitHelpers /\ [][NextHelpers]_vars

(***************************************************************************)
(* The combo auto-bundler effect.                                          *)
(***************************************************************************)
MathFloor(vts) == (vts \div TsUnit) * TsUnit

ComboDetected == "Combo detectado! Tu pedido fue actualizado con el mejor precio."

RECURSIVE InsertByComponentsDesc(_, _)
InsertByComponentsDesc(p, sorted) ==
    IF sorted = <<>> THEN <<p>>
    ELSE IF Len(Head(sorted).comboComponents) >= Len(p.comboComponents)
         THEN <<Head(sorted)>> \o InsertByComponentsDesc(p, Tail(sorted))
         ELSE <<p>> \o sorted

RECURSIVE SortCombosDesc(_)
SortCombosDesc(ps) ==
    IF ps = <<>> THEN <<>>
    ELSE InsertByComponentsDesc(ps[Len(ps)], SortCombosDesc(SubSeq(ps, 1, Len(ps) - 1)))

sortedCombosOf(products) ==
    LET IsCombo(p) == p.type = "combo" /\ Len(p.comboComponents) > 0
    IN  SortCombosDesc(SelectSeq(products, IsCombo))

sortedCombos == sortedCombosOf(allLiveProducts)

\* availableKits.get(productId) || []: the virtual timestamps of the LAST line
\* of the product's complete kit (Map.set replaces an earlier line's entry)
availableKits(c, productId) ==
    LET IsUnit(item) ==
            /\ Product(item.product).type = "individual"
            /\ IsKitCompleto(item.kit)
            /\ item.product = productId
        lines == SelectSeq(c, IsUnit)
        item == lines[Len(lines)]
    IN  IF lines = <<>> THEN <<>>
        ELSE [i \in 1..item.quantity |-> item.timestamp + (i - 1)]

\* availableTimestamps.find(ts => !consumedVirtualTimestamps.has(ts))
nextAvailableTs(availableTimestamps, consumed) ==
    LET Unconsumed(ts) == ts \notin consumed
    IN  FirstOrUndefined(SelectSeq(availableTimestamps, Unconsumed))

\* the while (true) loop for one combo definition
RECURSIVE assembleCombo(_, _, _, _)
assembleCombo(comboDef, c, consumed, combosToAdd) ==
    LET required == comboDef.comboComponents
        found == [k \in DOMAIN required |->
                     nextAvailableTs(availableKits(c, required[k]), consumed)]
        canMakeCombo == \A k \in DOMAIN required : found[k] # <<>>
        IsComplete(k) == IsKitCompleto(k)
        comboKit == FirstOrUndefined(SelectSeq(comboDef.kits, IsComplete))
    IN  IF ~canMakeCombo THEN [consumed |-> consumed, combosToAdd |-> combosToAdd]
        ELSE assembleCombo(comboDef, c,
                 consumed \cup {found[k][1] : k \in DOMAIN required},
                 IF comboKit = <<>> THEN combosToAdd
                 ELSE Append(combosToAdd,
                             [product |-> comboDef.id, kit |-> comboKit[1], quantity |-> 1]))

\* the for (const comboDef of sortedCombos) loop
RECURSIVE assembleCombos(_, _, _, _)
assembleCombos(combos, c, consumed, combosToAdd) ==
    IF combos = <<>> THEN [consumed |-> consumed, combosToAdd |-> combosToAdd]
    ELSE LET after == assembleCombo(Head(combos), c, consumed, combosToAdd)
         IN  assembleCombos(Tail(combos), c, after.consumed, after.combosToAdd)

\* Math.random() for the k-th combo line a pass creates in millisecond ms, in
\* timestamp units.  Math.random() is taken never to return 0 nor a fraction a
\* line of that millisecond already carries: the k-th unused fraction.
RECURSIVE UnusedFraction(_, _)
UnusedFraction(used, k) ==
    LET least == CHOOSE f \in (1..(TsUnit - 1)) \ used :
                     \A g \in (1..(TsUnit - 1)) \ used : f <= g
    IN  IF k = 1 THEN least ELSE UnusedFraction(used \cup {least}, k - 1)

MathRandom(c, ms, k) ==
    UnusedFraction({c[i].timestamp % TsUnit :
                       i \in {j \in DOMAIN c : c[j].timestamp \div TsUnit = ms}}, k)

\* the old and new cart signatures: the sorted, joined `${kit.id}x${quantity}`
\* strings are equal exactly when the bags of (kit id, quantity) pairs are
cartSignature(c) ==
    LET pairs == {<<c[i].kit.id, c[i].quantity>> : i \in DOMAIN c}
    IN  [pr \in pairs |->
            Cardinality({i \in DOMAIN c : <<c[i].kit.id, c[i].quantity>> = pr})]

\* newCart: the consumed units taken off their lines, the emptied lines
\* dropped, the combo lines appended
bundledCartOf(products, c, ms) ==
    LET made == assembleCombos(sortedCombosOf(products), c, {}, <<>>)
        consumedCount(item) ==
            Cardinality({vts \in made.consumed : MathFloor(vts) = item.timestamp})
        reduced == [i \in DOMAIN c |->
                       IF consumedCount(c[i]) # 0
                       THEN [c[i] EXCEPT !.quantity = @ - consumedCount(c[i])]
                       ELSE c[i]]
        Kept(item) == item.quantity > 0
        stamped == [k \in DOMAIN made.combosToAdd |->
                       [product |-> made.combosToAdd[k].product,
                        kit |-> made.combosToAdd[k].kit,
                        quantity |-> made.combosToAdd[k].quantity,
                        timestamp |-> ms * TsUnit + MathRandom(c, ms, k)]]
    IN  SelectSeq(reduced, Kept) \o stamped

bundledCart(c, ms) == bundledCartOf(allLiveProducts, c, ms)

\* whether the effect calls setCart(newCart)
bundlerRewritesOf(products, c) ==
    /\ ~(Len(c) < 2 \/ Len(products) = 0)
    /\ Len(assembleCombos(sortedCombosOf(products), c, {}, <<>>).combosToAdd) > 0
    /\ cartSignature(c) # cartSignature(bundledCartOf(products, c, 0))

bundlerRewrites(c) == bundlerRewritesOf(allLiveProducts, c)

(***************************************************************************)
(* The App: the cart handlers and the two cart effects.                    *)
(***************************************************************************)
\* feedbackMessage holds the last text set; the timers that blank the banner
\* 3 s after showFeedback are left out
Agregado == "Agregado al pedido!"
ComboAgregado == "Combo agregado!"
ComboYaEsta == "Este combo ya esta en tu pedido."

\* the (product, kit) pairs the add button is pressed for
AddableKits ==
    {"kit-completo-cerveza", "kit-extra-cerveza", "kit-completo-fernet",
     "kit-completo-ruta-19"}

Offers ==
    {[product |-> p.id, kit |-> p.kits[i]] :
        p \in Range(allLiveProducts), i \in 1..2} \cup
    {[product |-> p.id, kit |-> p.kits[3]] : p \in Range(BEBIDAS_INDIVIDUALES)}

Units(c) == SumSeq([i \in DOMAIN c |-> c[i].quantity])

\* handleAddToCart up to its setTimeout: the callback keeps the cart of the
\* render the handler was created in.  The kit is one of kits and the
\* quantity, the value of ProductDetail's selector, one of quantities.
handleAddToCartOf(kits, quantities, unitBudget) ==
    /\ ~effectsPending
    /\ Len(pendingAdds) < MaxPending
    /\ \E offer \in {o \in Offers : o.kit.id \in kits}, quantity \in quantities :
          /\ Units(cart) + Units(pendingAdds) + quantity <= unitBudget
          /\ LET SameKit(item) == item.kit.id = offer.kit.id
             IN  pendingAdds' = Append(pendingAdds,
                                   [product |-> offer.product, kit |-> offer.kit,
                                    quantity |-> quantity,
                                    existingItem |-> FirstOrUndefined(SelectSeq(cart, SameKit))])
    /\ UNCHANGED <<cart, automaticDiscounts, feedbackMessage, now, effectsPending, rewrites,
                   lastOrderInfo, localStorage, call, result, priceVars>>

handleAddToCart(unitBudget) == handleAddToCartOf(AddableKits, 1..2, unitBudget)

\* an add that ignores the line the kit already has and appends another one
addedIndividualAsNewLine(c, add, t) ==
    Append(c, [product |-> add.product, kit |-> add.kit,
               quantity |-> add.quantity, timestamp |-> t * TsUnit])

\* the cart after the "default logic for individual items", at Date.now() = t
addedIndividual(c, add, t) ==
    IF add.existingItem # <<>>
    THEN updateCartQuantity(c, add.existingItem[1].timestamp,
                            raisedQuantity(add.existingItem[1], add.quantity))
    ELSE Append(c, [product |-> add.product, kit |-> add.kit,
                    quantity |-> add.quantity, timestamp |-> t * TsUnit])

\* a combo line that takes the requested quantity
addedComboWithRequestedQuantity(c, add, t) ==
    Append(c, [product |-> add.product, kit |-> add.kit,
               quantity |-> add.quantity, timestamp |-> t * TsUnit])

\* the cart after a combo that is not in the cart is added, at Date.now() = t
addedCombo(c, add, t) ==
    Append(c, [product |-> add.product, kit |-> add.kit,
               quantity |-> 1, timestamp |-> t * TsUnit])

\* the setTimeout callback of handleAddToCart, 100 ms after the click; the
\* clock it reads may still show the millisecond of the previous reading
addToCartTimeout ==
    /\ ~effectsPending
    /\ pendingAdds # <<>>
    /\ \E t \in {now, now + 1} :
          /\ t <= MaxClock
          /\ now' = t
          /\ LET add == Head(pendingAdds)
                 isCombo == Product(add.product).type = "combo"
             IN  IF isCombo
                 THEN IF add.existingItem # <<>>
                      THEN /\ feedbackMessage' = ComboYaEsta
                           /\ UNCHANGED <<cart, effectsPending, rewrites>>
                      ELSE /\ cart' = addedCombo(cart, add, t)
                           /\ feedbackMessage' = ComboAgregado
                           /\ effectsPending' = TRUE
                           /\ rewrites' = 0
                 ELSE /\ cart' = addedIndividual(cart, add, t)
                      /\ feedbackMessage' = Agregado
                      /\ effectsPending' = TRUE
                      /\ rewrites' = 0
    /\ pendingAdds' = Tail(pendingAdds)
    /\ UNCHANGED <<automaticDiscounts, lastOrderInfo, localStorage, call, result, priceVars>>

\* the - and + buttons of Cart and MiniCart, shown for non-combo lines only
handleUpdateCartQuantity(unitBudget) ==
    /\ ~effectsPending
    /\ \E i \in DOMAIN cart :
          /\ Product(cart[i].product).type # "combo"
          /\ \/ /\ ~(cart[i].quantity <= 1)
                /\ cart' = updateCartQuantity(cart, cart[i].timestamp,
                               decrementedQuantity(cart[i]))
             \/ /\ ~(cart[i].quantity >= 5)
                /\ Units(cart) + Units(pendingAdds) < unitBudget
                /\ cart' = updateCartQuantity(cart, cart[i].timestamp,
                               incrementedQuantity(cart[i]))
    /\ effectsPending' = TRUE
    /\ rewrites' = 0
    /\ UNCHANGED <<automaticDiscounts, feedbackMessage, pendingAdds, now, lastOrderInfo,
                   localStorage, call, result, priceVars>>

handleRemoveFromCart ==
    /\ ~effectsPending
    /\ \E i \in DOMAIN cart :
          LET Others(item) == item.timestamp # cart[i].timestamp
          IN  cart' = SelectSeq(cart, Others)
    /\ effectsPending' = TRUE
    /\ rewrites' = 0
    /\ UNCHANGED <<automaticDiscounts, feedbackMessage, pendingAdds, now, lastOrderInfo,
                   localStorage, call, result, priceVars>>

\* a snapshot that takes the lines and leaves the discounts behind
orderSnapshotWithoutDiscounts(c, discounts) == [items |-> c, discounts |-> <<>>]

\* { items: [...cart], discounts: automaticDiscounts }
orderSnapshot(c, discounts) == [items |-> c, discounts |-> discounts]

\* the WhatsApp button of Cart, which is shown for a cart that has lines
handleOrderPlaced ==
    /\ ~effectsPending
    /\ cart # <<>>
    /\ lastOrderInfo' = orderSnapshot(cart, automaticDiscounts)
    /\ cart' = <<>>
    /\ effectsPending' = TRUE
    /\ rewrites' = 0
    /\ UNCHANGED <<automaticDiscounts, feedbackMessage, pendingAdds, now, localStorage,
                   call, result, priceVars>>

resetOrder ==
    /\ ~effectsPending
    /\ cart # <<>> \/ lastOrderInfo.items # <<>>
    /\ lastOrderInfo' = [items |-> <<>>, discounts |-> <<>>]
    /\ cart' = <<>>
    /\ effectsPending' = TRUE
    /\ rewrites' = 0
    /\ UNCHANGED <<automaticDiscounts, feedbackMessage, pendingAdds, now, localStorage,
                   call, result, priceVars>>

\* the two effects on [cart, allLiveProducts], run in order after a render
\* that changed the cart: the discount recomputation, then the auto-bundler
cartEffects ==
    /\ effectsPending
    /\ localStorage' = [localStorage EXCEPT !.barrilesYaCart = <<stringifiedCart(cart)>>]
    /\ automaticDiscounts' = newDiscounts(cart)
    /\ IF bundlerRewrites(cart)
       THEN /\ cart' = bundledCart(cart, now)
            /\ feedbackMessage' = ComboDetected
            /\ rewrites' = rewrites + 1
            /\ UNCHANGED effectsPending
       ELSE /\ effectsPending' = FALSE
            /\ UNCHANGED <<cart, feedbackMessage, rewrites>>
    /\ UNCHANGED <<pendingAdds, now, lastOrderInfo, call, result, priceVars>>

Init ==
    /\ AppInit
    /\ call = [fn |-> "none"]
    /\ result = <<>>

Next(unitBudget) ==
    \/ handleAddToCart(unitBudget)
    \/ addToCartTimeout
    \/ handleUpdateCartQuantity(unitBudget)
    \/ handleRemoveFromCart
    \/ resetOrder
    \/ cartEffects

Spec == Init /\ [][Next(MaxUnits)]_vars

\* the same App with room for one more unit: two combos take four units
SpecFourUnits == Init /\ [][Next(MaxUnits + 1)]_vars

\* the App with orders placed, on carts of one unit less
NextWithOrders ==
    \/ Next(MaxUnits - 1)
    \/ handleOrderPlaced

SpecOrders == Init /\ [][NextWithOrders]_vars

\* the App with the quantity selector past the middle of its range (at 3 of
\* 1 to 5) on the complete kits of two products, and room for two such adds
NextSelector ==
    \/ handleAddToCartOf({"kit-completo-cerveza", "kit-completo-fernet"},
                         {MaxCount \div 2 + 1}, 2 * (MaxCount \div 2 + 1))
    \/ addToCartTimeout
    \/ handleUpdateCartQuantity(2 * (MaxCount \div 2 + 1))
    \/ handleRemoveFromCart
    \/ resetOrder
    \/ cartEffects

SpecSelector == Init /\ [][NextSelector]_vars

(***************************************************************************)
(* The App started on a cart restored from localStorage: the cart effects  *)
(* run on it after the first render.                                       *)
(***************************************************************************)
RestorableKits ==
    {"kit-completo-cerveza", "kit-extra-cerveza", "kit-completo-fernet", "kit-completo-gin"}

RestoredLines ==
    {[product |-> o.product, kit |-> o.kit, quantity |-> q] :
        o \in {o \in Offers : o.kit.id \in RestorableKits}, q \in 1..MaxCount}

\* the line sequences of at most n lines, one line per kit
RECURSIVE LinesOfDistinctKits(_)
LinesOfDistinctKits(n) ==
    IF n = 0 THEN {<<>>}
    ELSE LET shorter == LinesOfDistinctKits(n - 1)
             Absent(c) == {l \in RestoredLines : \A i \in DOMAIN c : c[i].kit.id # l.kit.id}
         IN  shorter \cup UNION {{Append(c, l) : l \in Absent(c)} : c \in shorter}

\* a saved cart: one line per kit, each line added in a millisecond of its
\* own before this session's clock starts
InitRestored ==
    /\ \E lines \in LinesOfDistinctKits(Cardinality(RestorableKits)) :
          localStorage =
              [barrilesYaCart |-> <<stringifiedCart(StampedCart(lines, Len(lines) + 1))>>,
               barrilesYaPrices |-> NoItem, barrilesYaPriceTimestamp |-> NoItem]
    /\ DefaultPricesLoaded
    /\ cart = initialCart(localStorage.barrilesYaCart)
    /\ automaticDiscounts = <<>>
    /\ feedbackMessage = ""
    /\ pendingAdds = <<>>
    /\ now = 0
    /\ effectsPending = TRUE
    /\ rewrites = 0
    /\ lastOrderInfo = [items |-> <<>>, discounts |-> <<>>]
    /\ call = [fn |-> "none"]
    /\ result = <<>>

SpecBundler == InitRestored /\ [][cartEffects]_vars

(***************************************************************************)
(* The App started on whatever localStorage holds under 'barrilesYaCart':  *)
(* no item, a text that does not parse, a text of something that is not an *)
(* array, or the text of a cart saved earlier. call and result keep what   *)
(* the cart initializer was given and what it returned.                    *)
(***************************************************************************)
SavedLines ==
    {[product |-> "cerveza", kit |-> Product("cerveza").kits[k], quantity |-> 1] :
        k \in 1..2}

InitStored ==
    /\ \E savedCart \in
              {NoItem, <<[type |-> "unparsable"]>>, <<[type |-> "object"]>>,
               <<[type |-> "null"]>>, <<[type |-> "number"]>>} \cup
              {<<stringifiedCart(StampedCart(lines, Len(lines) + 1))>> :
                  lines \in SeqsUpTo(SavedLines, 1)} :
          localStorage = [barrilesYaCart |-> savedCart, barrilesYaPrices |-> NoItem,
                          barrilesYaPriceTimestamp |-> NoItem]
    /\ cart = initialCart(localStorage.barrilesYaCart)
    /\ automaticDiscounts = <<>>
    /\ feedbackMessage = ""
    /\ pendingAdds = <<>>
    /\ now = 0
    /\ effectsPending = TRUE
    /\ rewrites = 0
    /\ lastOrderInfo = [items |-> <<>>, discounts |-> <<>>]
    /\ DefaultPricesLoaded
    /\ call = [fn |-> "initialCart", savedCart |-> localStorage.barrilesYaCart]
    /\ result = <<cart>>

SpecStored == InitStored /\ [][Next(MaxUnits - 1)]_vars

(***************************************************************************)
(* The App from its mount, with whatever the price cache holds: the cart   *)
(* effects on the empty cart and fetchPrices.                              *)
(***************************************************************************)
InitPrices ==
    /\ cart = <<>>
    /\ automaticDiscounts = <<>>
    /\ feedbackMessage = ""
    /\ pendingAdds = <<>>
    /\ now = 0
    /\ effectsPending = TRUE
    /\ rewrites = 0
    /\ lastOrderInfo = [items |-> <<>>, discounts |-> <<>>]
    /\ \E cachedPricesRaw \in
              {NoItem, <<[type |-> "unparsable"]>>, <<[type |-> "null"]>>} \cup
              {<<stringifiedPrices(prices)>> : prices \in PriceMaps \ {<<>>}},
          cachedTimestamp \in {NoItem, <<"cached">>} :
          localStorage = [barrilesYaCart |-> NoItem, barrilesYaPrices |-> cachedPricesRaw,
                          barrilesYaPriceTimestamp |-> cachedTimestamp]
    /\ fetch = "mount"
    /\ isLoadingPrices = TRUE
    /\ isInitialLoad = TRUE
    /\ productCategories = allLiveProducts
    /\ priceLastUpdated = ""
    /\ call = [fn |-> "none"]
    /\ result = <<>>

NextPrices ==
    \/ cartEffects
    \/ fetchPricesStarts
    \/ fetchRejects
    \/ fetchResolves
    \/ textSettles

SpecPrices == InitPrices /\ [][NextPrices]_vars

(***************************************************************************)
(* Properties.                                                             *)
(***************************************************************************)
Returned(fn) == call.fn = fn /\ result # <<>>

ExampleTiers == {Tier(2, 5), Tier(3, 10), Tier(4, 15)}

\* C1: for every tier list, in any order, and every effective unit count n,
\* the tier the discount recomputation applies has the greatest threshold
\* that is <= n, and no tier is applied when n is below every threshold;
\* with tiers {2:5%, 3:10%, 4:15%}: n=3 gives 10%, n=5 gives 15%, n=1 none.
TierIsHighestQualifying ==
    Returned("applicableTier") =>
        LET n == call.totalBarrelQuantity
            qualifying == {t \in Range(call.tiers) : t.quantity <= n}
            applied == result[1]
            isExample == Len(call.tiers) = 3 /\ Range(call.tiers) = ExampleTiers
        IN  /\ qualifying = {} <=> applied = <<>>
            /\ applied # <<>> =>
                   /\ applied[1] \in qualifying
                   /\ \A t \in qualifying : t.quantity <= applied[1].quantity
            /\ isExample /\ n = 3 => applied = <<Tier(3, 10)>>
            /\ isExample /\ n = 5 => applied = <<Tier(4, 15)>>
            /\ isExample /\ n = 1 => applied = <<>>

\* C1 witness: a list that is neither ascending nor descending, where the
\* applied tier is neither its first nor its last element
TierChosenFromUnsortedList ==
    /\ Returned("applicableTier")
    /\ call.tiers = <<Tier(2, 5), Tier(4, 15), Tier(3, 10)>>
    /\ call.totalBarrelQuantity = 3
    /\ result = << <<Tier(3, 10)>> >>

\* C2 (as claimed): calculateItemTotal returns kit.price + quantity *
\* pricePerExtraBarrel for every line whose kit has hasExtraBarrelSelector, a
\* missing or zero extra price counting as 0, and kit.price * quantity for
\* every other line (base 12000, extra 7000, quantity 2 gives 26000).
ItemTotalFollowsExtraFlag ==
    Returned("calculateItemTotal") =>
        LET item == call.item IN
        /\ item.kit.hasExtraBarrelSelector =>
               result[1] = item.kit.price
                             + item.quantity * NumberOrZero(item.kit.pricePerExtraBarrel)
        /\ ~item.kit.hasExtraBarrelSelector => result[1] = item.kit.price * item.quantity
        /\ item = [kit |-> Kit("kit", TRUE, 12000, <<7000>>), quantity |-> 2]
               => result[1] = 26000

\* C3 (as claimed): getItemBarrelCount returns 1 + quantity for every line
\* whose kit is an extra-unit kit and quantity for every other line, and it
\* counts a line as extra-unit exactly when calculateItemTotal prices the
\* line as extra-unit.
BarrelCountAgreesWithItemTotal ==
    Returned("getItemBarrelCount") =>
        LET item == call.item
            countedAsExtra == result[1] = 1 + item.quantity
            pricedAsExtra ==
                calculateItemTotal(item) =
                    item.kit.price + item.quantity * NumberOrZero(item.kit.pricePerExtraBarrel)
            pricedAsPlain == calculateItemTotal(item) = item.kit.price * item.quantity
        IN  /\ item.kit.hasExtraBarrelSelector => result[1] = 1 + item.quantity
            /\ ~item.kit.hasExtraBarrelSelector => result[1] = item.quantity
            /\ countedAsExtra => pricedAsExtra
            /\ ~countedAsExtra => pricedAsPlain

\* C5: smartRoundToMarketingPrice maps every amount <= 0 to 0 and every
\* positive amount to (the amount rounded up to a multiple of 1000) minus 10,
\* so 24630 gives 24990 and 20001 gives 20990, and every result for a
\* positive amount ends in 990.
MarketingPriceRoundsUp ==
    Returned("smartRoundToMarketingPrice") =>
        LET price == call.price
            rounded == result[1]
        IN  /\ price <= 0 => rounded = 0
            /\ price > 0 =>
                   /\ (rounded + 10) % 1000 = 0
                   /\ rounded + 10 >= price
                   /\ rounded + 10 - price < 1000
                   /\ rounded % 1000 = 990
            /\ price = 24630 => rounded = 24990
            /\ price = 20001 => rounded = 20990

\* C5 witness: the documented example, an amount below the half thousand
MarketingPriceExample ==
    Returned("smartRoundToMarketingPrice") /\ call.price = 20001 /\ result = <<20990>>

\* C4: for every product in the cart the discount entry comes from the sum
\* of the effective unit counts and the sum of the raw line totals of all
\* the product's lines, whatever their kits: the tier is the one the pooled
\* count selects and amount = pooled subtotal * percentage / 100; a product
\* whose pooled count reaches no tier has no entry.  Two lines with raw
\* totals 8000 and 9000 under a 10% tier give 1700 and a final total 15300.
DiscountPoolsAllLinesOfProduct ==
    Returned("newDiscounts") =>
        LET c == call.cart
            discounts == result[1]
            inCart == {c[i].product : i \in DOMAIN c}
            pooledCount(p) ==
                SumSeq([i \in DOMAIN c |->
                           IF c[i].product = p THEN getItemBarrelCount(c[i]) ELSE 0])
            pooledSubtotal(p) ==
                SumSeq([i \in DOMAIN c |->
                           IF c[i].product = p THEN calculateItemTotal(c[i]) ELSE 0])
            qualifying(p) ==
                {t \in Range(Product(p).discountTiers) : t.quantity <= pooledCount(p)}
            lineTotals == {calculateItemTotal(c[i]) : i \in DOMAIN c}
        IN  /\ DOMAIN discounts \subseteq inCart
            /\ \A p \in inCart :
                   IF qualifying(p) = {} THEN p \notin DOMAIN discounts
                   ELSE /\ p \in DOMAIN discounts
                        /\ \E t \in qualifying(p) :
                               /\ \A u \in qualifying(p) : u.quantity <= t.quantity
                               /\ discounts[p].percentage = t.percentage
                               /\ discounts[p].amount * 100 = pooledSubtotal(p) * t.percentage
            /\ \A p \in inCart :
                   (/\ Len(c) = 2 /\ c[1].product = c[2].product
                    /\ lineTotals = {8000, 9000}
                    /\ p \in DOMAIN discounts /\ discounts[p].percentage = 10)
                   => /\ discounts[p].amount = 1700
                      /\ finalTotal(c, discounts) = 15300

\* C4 witness: a complete kit at 8000 and two units at 4500 each, of fernet:
\* three pooled units reach the 10% tier no single line reaches
TwoFernetLinesPooled ==
    /\ Returned("newDiscounts")
    /\ Len(call.cart) = 2
    /\ call.cart[1].product = "fernet" /\ call.cart[2].product = "fernet"
    /\ call.cart[1].kit.id = "kit-completo-fernet" /\ calculateItemTotal(call.cart[1]) = 8000
    /\ call.cart[2].kit.id = "solo-barril-fernet" /\ calculateItemTotal(call.cart[2]) = 9000
    /\ result[1] = ("fernet" :> [percentage |-> 10, amount |-> 1700])
    /\ finalTotal(call.cart, result[1]) = 15300

\* a step of cartEffects in which the bundler calls setCart(newCart)
BundlerRewrite == effectsPending /\ rewrites' = rewrites + 1

CompleteKitUnits(c, p) ==
    SumSeq([i \in DOMAIN c |->
               IF c[i].product = p /\ IsKitCompleto(c[i].kit) THEN c[i].quantity ELSE 0])

NewComboLinesWith(before, after, p) ==
    Cardinality({i \in DOMAIN after :
                    /\ Product(after[i].product).type = "combo"
                    /\ after[i].timestamp \notin {before[j].timestamp : j \in DOMAIN before}
                    /\ p \in Range(Product(after[i].product).comboComponents)})

\* C6 (as claimed): in every bundler rewrite, for every individual product
\* p, the complete-kit units of p in the cart before the pass are the units
\* left in p's complete-kit lines after it plus the number of newly added
\* combo lines that have p among their components.
BundlerCompensatesEveryUnit ==
    [][BundlerRewrite =>
          \A p \in {q.id : q \in Range(BEBIDAS_INDIVIDUALES)} :
              CompleteKitUnits(cart, p)
                  = CompleteKitUnits(cart', p) + NewComboLinesWith(cart, cart', p)]_vars

\* C7 (as claimed): in every bundler rewrite the order's final total, the
\* raw line totals minus the automatic discounts, both recomputed for the
\* cart at hand, is after the rewrite at most what it was before.
BundlerNeverRaisesTotal ==
    [][BundlerRewrite =>
          finalTotal(cart', newDiscounts(cart')) <= finalTotal(cart, newDiscounts(cart))]_vars

\* C8 (as claimed): the bundler pass run on the cart it has just written
\* finds no combo to assemble, so that it adds no combo line, does not
\* set the cart again and raises no second notification.
BundlerPassIsIdempotent ==
    [][BundlerRewrite =>
          /\ assembleCombos(sortedCombos, cart', {}, <<>>).combosToAdd = <<>>
          /\ ~bundlerRewrites(cart')]_vars

\* a step in which the deferred callback of an add runs
AddApplied == pendingAdds # <<>> /\ pendingAdds' = Tail(pendingAdds)

\* the cart has not changed, for the kit the add is for, since the click:
\* the line the click found (or found missing) is what the cart holds now
CartAsTheClickSawIt(add) ==
    LET SameKit(item) == item.kit.id = add.kit.id
    IN  add.existingItem = FirstOrUndefined(SelectSeq(cart, SameKit))

CombosAreSingleInstance ==
    \A i \in DOMAIN cart :
        Product(cart[i].product).type = "combo" =>
            /\ cart[i].quantity = 1
            /\ \A j \in DOMAIN cart : cart[j].kit.id = cart[i].kit.id => j = i

\* C12 (as claimed): whatever the current quantity of the addressed line
\* and whatever change is requested, after handleUpdateCartQuantity the
\* line's quantity is between 1 and 5 inclusive.
UpdatedQuantityWithinOneToFive ==
    Returned("handleUpdateCartQuantity") =>
        \A i \in DOMAIN result[1] :
            result[1][i].timestamp = call.timestamp =>
                /\ result[1][i].quantity >= 1
                /\ result[1][i].quantity <= 5

\* C13 (as claimed): in every reachable state the lines of the cart have
\* pairwise distinct timestamp keys, lines added in the same instant and
\* lines created by the auto-bundler included.
LineKeysPairwiseDistinct ==
    \A i, j \in DOMAIN cart : cart[i].timestamp = cart[j].timestamp => i = j

\* the barrels of the lines of a product, pooled over the whole cart
PooledBarrels(productId) ==
    SumSeq([i \in DOMAIN cart |->
               IF cart[i].product = productId THEN getItemBarrelCount(cart[i]) ELSE 0])

\* the raw total of the lines of a product
PooledSubtotal(productId) ==
    SumSeq([i \in DOMAIN cart |->
               IF cart[i].product = productId THEN calculateItemTotal(cart[i]) ELSE 0])

\* the tiers of a product whose threshold the pooled barrels reach
QualifyingTiers(productId) ==
    {tier \in Range(Product(productId).discountTiers) :
        tier.quantity <= PooledBarrels(productId)}

\* C14: once the cart effects have run, the discount map has an entry for a
\* product exactly when the cart has lines of it and a tier applies to
\* their pooled barrels, and the entry is the highest such tier's percentage
\* of the product's subtotal: no entry is left over from an earlier cart.
DiscountMapIsThatOfTheCart ==
    ~effectsPending =>
        /\ DOMAIN automaticDiscounts \subseteq ProductIds
        /\ \A p \in ProductIds :
              LET hasLines == \E i \in DOMAIN cart : cart[i].product = p
              IN  /\ p \in DOMAIN automaticDiscounts <=>
                         hasLines /\ QualifyingTiers(p) # {}
                  /\ p \in DOMAIN automaticDiscounts =>
                         \E tier \in QualifyingTiers(p) :
                            /\ \A other \in QualifyingTiers(p) : other.quantity <= tier.quantity
                            /\ automaticDiscounts[p].percentage = tier.percentage
                            /\ automaticDiscounts[p].amount =
                                   (PooledSubtotal(p) * tier.percentage) \div 100

\* an order with a discount was placed, and the cart built after it has a
\* line and no discount
DiscountGoneAfterOrder ==
    /\ ~effectsPending
    /\ lastOrderInfo.discounts # <<>>
    /\ cart # <<>>
    /\ automaticDiscounts = <<>>

\* the raw totals of the lines of the cart a helper was called with
RawTotal == SumSeq([i \in DOMAIN call.cart |-> calculateItemTotal(call.cart[i])])

\* the amounts of the discount map a helper was called with, product by
\* product in catalog order
Saving ==
    SumSeq([i \in DOMAIN allLiveProducts |->
               IF allLiveProducts[i].id \in DOMAIN call.discounts
               THEN call.discounts[allLiveProducts[i].id].amount ELSE 0])

\* C15: the message for an empty cart is the fixed empty-order sentence
\* whatever the discount map; for a cart with lines and a non-empty map its
\* footer gives the subtotal, the sum of all the map's amounts as the
\* discount and the subtotal minus that sum as the final total; with an
\* empty map the footer gives only the total, the sum of the raw line totals.
OrderMessageTotals ==
    Returned("generateOrderMessage") =>
        LET message == result[1]
        IN  IF call.cart = <<>>
            THEN message = EmptyOrderMessage
            ELSE /\ message # EmptyOrderMessage
                 /\ IF DOMAIN call.discounts # {}
                    THEN /\ [i \in DOMAIN message.footer |-> message.footer[i].label] =
                                <<"Subtotal", "Ahorro por cantidad", "Total Final">>
                         /\ message.footer[1].amount = formatCurrency(RawTotal)
                         /\ message.footer[2].amount = formatCurrency(Saving)
                         /\ message.footer[2].minus
                         /\ message.footer[3].amount = formatCurrency(RawTotal - Saving)
                    ELSE /\ [i \in DOMAIN message.footer |-> message.footer[i].label] =
                                <<"Total estimado">>
                         /\ message.footer[1].amount = formatCurrency(RawTotal)

\* a message for a cart of two lines with discounts of two products, one of
\* them not in the cart
MessageWithTwoDiscounts ==
    /\ Returned("generateOrderMessage")
    /\ Len(call.cart) = 2
    /\ DOMAIN call.discounts = {"cerveza", "fernet"}
    /\ result[1].footer[3].amount = formatCurrency(RawTotal - 1900)

\* fetchPrices has left its try statement, on whichever path
FetchSettled ==
    fetch \in {"networkError", "notOk", "textError", "missingColumns", "noUsableRows",
               "success"}

\* C16: whatever the outcome of the price fetch, from the moment it has
\* settled isLoadingPrices and isInitialLoad are false and stay false.
LoadingResolvedOnceFetchSettled ==
    [](FetchSettled => [](~isLoadingPrices /\ ~isInitialLoad))

\* a sheet without the required columns, and the loading state resolved
LoadingResolvedAfterMissingColumns ==
    /\ fetch = "missingColumns"
    /\ ~isLoadingPrices
    /\ ~isInitialLoad

\* C17 (as claimed): while the price fetch is pending, the screen is
\* rendered, with the cached or default prices, instead of a placeholder
\* that waits for the fetch to settle.
ScreenRenderedWhileFetchPending ==
    fetch \in {"awaitResponse", "awaitText"} => mainShows = "renderScreen"

\* the saved cart the App started on was no array: nothing, a text that
\* does not parse, or the text of another kind of value
StartedWithoutSavedArray ==
    /\ call.fn = "initialCart"
    /\ call.savedCart # NoItem => call.savedCart[1].type # "array"

\* C18: started on persisted cart data that is absent, unparsable or not an
\* array, the App has the empty cart as its first cart; and whenever the
\* cart effects have run after a cart mutation, the persisted value is the
\* text of an array from which the whole current cart is read back.
SavedCartRecoveredAndKept ==
    /\ StartedWithoutSavedArray => result = <<(<<>>)>>
    /\ ~effectsPending =>
          /\ localStorage.barrilesYaCart # NoItem
          /\ localStorage.barrilesYaCart[1].type = "array"
          /\ Len(localStorage.barrilesYaCart[1].elements) = Len(cart)
          /\ initialCart(localStorage.barrilesYaCart) = cart

\* started on a text that does not parse, the App has a cart of two lines
\* and has persisted it
TwoLinesSavedAfterUnparsableStart ==
    /\ call.fn = "initialCart"
    /\ call.savedCart = <<[type |-> "unparsable"]>>
    /\ result = <<(<<>>)>>
    /\ ~effectsPending
    /\ Len(cart) = 2
    /\ Len(localStorage.barrilesYaCart[1].elements) = 2

\* C19 (as claimed): calculateItemTotal returns a non-negative number for
\* every cart line, a line whose quantity or price is zero or negative
\* included, each of which counts as 0.
ItemTotalIsNeverNegative ==
    Returned("calculateItemTotal") => result[1] >= 0

\* a handler step that leaves a shorter cart with lines in it: a removal
RemoveApplied ==
    /\ ~effectsPending
    /\ effectsPending'
    /\ cart' # <<>>
    /\ Len(cart') < Len(cart)

\* the cart without its i-th line, the other lines as they were and in order
WithoutLine(c, i) == [j \in 1..(Len(c) - 1) |-> IF j < i THEN c[j] ELSE c[j + 1]]

\* C20 (as claimed): a removal deletes one line, the one addressed, and
\* every other line of the cart stays, with its kit and quantity and in the
\* same relative order.
RemoveDeletesOneLineOnly ==
    [][RemoveApplied => \E i \in DOMAIN cart : cart' = WithoutLine(cart, i)]_vars

\* a step in which the bundler effect runs, whether or not it sets the cart
BundlerPass == effectsPending /\ (rewrites' = rewrites + 1 \/ ~effectsPending')

\* the combo lines of product comboId that are in the cart after a pass and
\* were not in it before
NewLinesOf(before, after, comboId) ==
    Cardinality({i \in DOMAIN after :
                    /\ after[i].product = comboId
                    /\ after[i].timestamp \notin {before[j].timestamp : j \in DOMAIN before}})

Min(a, b) == IF a <= b THEN a ELSE b

\* the combos a greedy assembly in descending order of component count
\* makes of c, g and f units of cerveza, gin-tonic and fernet
GreedyCombos(c, g, f) ==
    LET casaTres == Min(c, Min(g, f))
        ruta19 == Min(f - casaTres, c - casaTres)
        vientoSur == Min(g - casaTres, c - casaTres - ruta19)
        sunsetClub == Min(f - casaTres - ruta19, g - casaTres - vientoSur)
    IN  [casaTres |-> casaTres, ruta19 |-> ruta19,
         vientoSur |-> vientoSur, sunsetClub |-> sunsetClub]

\* C21 (as claimed): a bundler pass over a cart with c, g and f complete-kit
\* units of cerveza, gin-tonic and fernet adds min(c, g, f) casa-tres lines,
\* and of the units left over as many ruta-19 lines as they allow, then as
\* many viento-sur lines, then as many sunset-club lines.
BundlerFormsCombosGreedily ==
    [][BundlerPass =>
          LET greedy == GreedyCombos(CompleteKitUnits(cart, "cerveza"),
                                     CompleteKitUnits(cart, "gin-tonic"),
                                     CompleteKitUnits(cart, "fernet"))
          IN  /\ NewLinesOf(cart, cart', "casa-tres") = greedy.casaTres
              /\ NewLinesOf(cart, cart', "ruta-19") = greedy.ruta19
              /\ NewLinesOf(cart, cart', "viento-sur") = greedy.vientoSur
              /\ NewLinesOf(cart, cart', "sunset-club") = greedy.sunsetClub]_vars

(***************************************************************************)
(* The bundler over a catalog with a combo that names a product twice.     *)
(***************************************************************************)
\* comboComponents is a string[]: nothing keeps a product from being listed
\* twice.  The shipped catalog has no such combo; these two are added to it.
DoubledCombos ==
    {[id |-> "doble-cerveza", type |-> "combo",
      comboComponents |-> <<"cerveza", "cerveza">>,
      discountTiers |-> <<Tier(1, 10)>>,
      kits |-> <<Kit("kit-completo-doble-cerveza", FALSE, 22000, <<>>)>>],
     [id |-> "doble-fernet-cerveza", type |-> "combo",
      comboComponents |-> <<"fernet", "cerveza", "fernet">>,
      discountTiers |-> <<Tier(1, 10)>>,
      kits |-> <<Kit("kit-completo-doble-fernet-cerveza", FALSE, 36000, <<>>)>>]}

\* allLiveProducts of a catalog that has the combo
productsWith(comboDef) == allLiveProducts \o <<comboDef>>

\* one run of the bundler effect on a cart of at most two lines, one per kit
InitBundlerCall ==
    /\ AppInit
    /\ \E comboDef \in DoubledCombos, lines \in LinesOfDistinctKits(2) :
          call = [fn |-> "bundler", comboDef |-> comboDef,
                  cart |-> StampedCart(lines, Len(lines) + 1)]
    /\ result = <<>>

\* the cart the effect leaves: newCart when it calls setCart, else the cart
bundlerReturns ==
    /\ call.fn = "bundler"
    /\ result = <<>>
    /\ result' = <<IF bundlerRewritesOf(productsWith(call.comboDef), call.cart)
                   THEN bundledCartOf(productsWith(call.comboDef), call.cart, now)
                   ELSE call.cart>>
    /\ UNCHANGED <<appVars, call>>

SpecDoubledCombo == InitBundlerCall /\ [][bundlerReturns]_vars

\* how many times the component list of the combo of a line names product p
TimesNamed(products, line, p) ==
    LET IsProduct(q) == q.id = line.product
        comps == SelectSeq(products, IsProduct)[1].comboComponents
    IN  Cardinality({k \in DOMAIN comps : comps[k] = p})

\* C22 (as claimed): when the catalog has a combo whose component list names
\* a product twice, every assembly of that combo takes two distinct units of
\* the product: the complete-kit units of each product drop, over a pass, by
\* the number of times the component lists of the newly added combo lines
\* name it, two for each doubled combo formed.
DoubledComboTakesTwoUnits ==
    (call.fn = "bundler" /\ result # <<>>) =>
        LET before == call.cart
            after == result[1]
            products == productsWith(call.comboDef)
            IsNew(line) == line.timestamp \notin {before[j].timestamp : j \in DOMAIN before}
            taken(p) == SumSeq([i \in DOMAIN after |->
                                   IF IsNew(after[i]) THEN TimesNamed(products, after[i], p)
                                   ELSE 0])
        IN  \A p \in {q.id : q \in Range(BEBIDAS_INDIVIDUALES)} :
                CompleteKitUnits(before, p) - CompleteKitUnits(after, p) = taken(p)

\* C23 (as claimed): after one cart mutation at most one bundler rewrite is
\* applied (a pass rewrites only a cart no pass has rewritten since the
\* mutation), and a pass that leaves the cart's bag of (kit id, quantity)
\* pairs as it was raises no notification.
BundlerChainStopsAfterOneRewrite ==
    [][/\ BundlerRewrite => rewrites = 0
       /\ (BundlerPass /\ cartSignature(cart') = cartSignature(cart))
              => feedbackMessage' = feedbackMessage]_vars

\* C24 (as claimed): whatever the order of the tier list, the tier of the
\* price preview on the product screen is, for the unit count of the
\* preview, the tier the cart's discount recomputation selects for that
\* count: the one with the highest threshold not exceeding the count.
PreviewTierIsTheCartTier ==
    Returned("ProductDetail") =>
        result[1].applicableTier
            = applicableTier(call.product.discountTiers, result[1].totalBarrels)

\* C25 (as claimed): in every state reached from the empty cart by adds,
\* quantity updates, removals and bundler passes, every non-combo line has
\* a quantity from 1 to 5; an add onto a line does not take it above 5.
LineQuantitiesWithinOneToFive ==
    \A i \in DOMAIN cart :
        Product(cart[i].product).type # "combo"
            => cart[i].quantity >= 1 /\ cart[i].quantity <= 5

\* C26 (as claimed): whatever the interleaving of add clicks and their
\* deferred applications, the cart never holds two lines of one individual
\* kit; two adds of a kit clicked before the first is applied end in one
\* line of that kit.
OneLinePerIndividualKit ==
    \A i, j \in DOMAIN cart :
        (/\ i # j
         /\ Product(cart[i].product).type = "individual")
            => cart[i].kit.id # cart[j].kit.id

\* the units of a kit in a cart, over all its lines
KitUnits(c, kitId) ==
    SumSeq([i \in DOMAIN c |-> IF c[i].kit.id = kitId THEN c[i].quantity ELSE 0])

\* C27 (as claimed): the deferred application of an add of quantity q of an
\* individual kit raises the units of that kit in the cart by exactly q,
\* counted from the cart the application finds, whatever changed the cart
\* between the click and the application.
AddRaisesKitTotalByQuantity ==
    [][LET add == Head(pendingAdds)
       IN  (AddApplied /\ Product(add.product).type = "individual")
               => KitUnits(cart', add.kit.id) = KitUnits(cart, add.kit.id) + add.quantity]_vars

\* a step in which an order is placed
OrderPlaced == ~effectsPending /\ lastOrderInfo' # lastOrderInfo /\ lastOrderInfo'.items # <<>>

\* C28: placing an order makes the cart's lines the items of the last-order
\* snapshot and empties the cart, and in every state the discounts of the
\* snapshot are the discount recomputation over the snapshot's items.
OrderSnapshotCarriesItsDiscounts ==
    /\ [](lastOrderInfo.discounts = newDiscounts(lastOrderInfo.items))
    /\ [][OrderPlaced => (lastOrderInfo'.items = cart /\ cart' = <<>>)]_vars

\* an order of two lines with a discount has been placed, and the cart is
\* empty and its effects have run
DiscountedOrderInSnapshot ==
    /\ ~effectsPending
    /\ cart = <<>>
    /\ Len(lastOrderInfo.items) = 2
    /\ lastOrderInfo.discounts # <<>>

\* the products of the loaded catalog that have no entry in a mapping keep
\* their kits over the step
ProductsWithoutEntryKeepPrices(prices) ==
    \A i \in DOMAIN productCategories :
        productCategories[i].id \notin DOMAIN prices
            => productCategories'[i] = productCategories[i]

\* C29 (as claimed): a step that applies a price mapping, the cached one at
\* mount or the fetched one, leaves every product without an entry in the
\* mapping with the prices loaded just before, and a step in which the
\* fetch fails leaves all loaded prices as they are.
PriceMappingChangesItsProductsOnly ==
    [][/\ (fetch = "mount" /\ fetch' # fetch
              /\ localStorage.barrilesYaPrices # NoItem
              /\ localStorage.barrilesYaPrices[1].type = "object")
          => ProductsWithoutEntryKeepPrices(localStorage.barrilesYaPrices[1].value)
       /\ (fetch # "success" /\ fetch' = "success")
          => ProductsWithoutEntryKeepPrices(localStorage'.barrilesYaPrices[1].value)
       /\ (fetch # fetch'
              /\ fetch' \in {"networkError", "notOk", "textError", "missingColumns",
                             "noUsableRows"})
          => productCategories' = productCategories]_vars

\* C30 (as claimed): the price the product screen shows for a combo kit,
\* discounted and rounded to a marketing price, is what a line of that kit
\* adds to the final total of the cart and of the order message (its raw
\* total less its automatic discount); the price shown for a kit of an
\* individual product is its discounted price, not rounded.
ComboLineAmountIsThePreviewPrice ==
    Returned("ProductDetail") =>
        LET c == StampedCart(<<[product |-> call.product.id, kit |-> call.kit,
                                quantity |-> 1]>>, 0)
            tier == result[1].applicableTier
            rawTotal == calculateItemTotal([kit |-> call.kit, quantity |-> call.quantity])
        IN  IF call.product.type = "combo"
            THEN result[1].finalPrice = finalTotal(c, newDiscounts(c))
            ELSE result[1].finalPrice =
                     IF tier = <<>> THEN rawTotal
                     ELSE (rawTotal * (100 - tier[1].percentage)) \div 100

====
